---- MODULE Spec2Model ----
(***************************************************************************)
(* The session engine of the Twenty One bot (src/discord-21.py): the       *)
(* registry active_games, the GameState objects, the StatsManager cache    *)
(* and file, the slash command handlers play/drink/continue and the two    *)
(* background tasks of a game.                                             *)
(*                                                                         *)
(* The handlers are asyncio coroutines.  A handler runs without            *)
(* interruption up to its next await on the Discord API; there it is       *)
(* suspended and any other handler or task may run.  Each action below is  *)
(* one such uninterrupted piece: XBegin runs a handler up to its first     *)
(* reply, XResume is the rest of the handler once the reply was delivered, *)
(* XFail is the reply raising (the except clause of the handler only       *)
(* reports the error).  Pieces after which the handler changes no state    *)
(* are folded into the piece before them.                                  *)
(***************************************************************************)
EXTENDS Integers, Sequences, FiniteSets, Bags, TLC

\* config.MAX_CARD_VALUE of the modelled run (the source's default is 11).
MaxCardValue == 7
\* How many of the orders random.shuffle can leave the deck in are tried.
NumShuffles == 2
\* GameState objects constructed in one run.
MaxGames == 2
\* Handlers suspended at an await at the same time.
MaxInFlight == 1
\* config.MAX_CARD_VALUE of the runs with three people.
ThreeCardValue == 3
\* The runs in which handlers overlap: MAX_CARD_VALUE, the orders of the deck
\* tried, the GameState objects constructed and the handlers suspended at once.
RaceCardValue == 3
RaceShuffles == 1
RaceGames == 2
RaceInFlight == 2
\* PlayerData.is_bust: total > 21.
BustLimit == 21
\* The default of config.MAX_CARD_VALUE.
DefaultCardValue == 11

\* user ids: members that are people, and a member that is a bot account.
Humans == {1, 2, 3}
Bots == {4}

REVEAL == "reveal"
BUST == "bust"
TIMEOUT == "timeout"
DECK_EMPTY == "deck_empty"

\* Python's None, where the model holds a user id or the index of a GameState
None == 0

VARIABLES
    guild,          \* the people who issue commands in this run
    max_card,       \* config.MAX_CARD_VALUE
    shuffles,       \* the orders random.shuffle leaves a deck in, in this run
    disk,           \* whether a write of game_stats.json can succeed (TRUE), fail (FALSE)
    active_games,   \* the dict active_games, in insertion order: <<[key, gs]>>
    heap,           \* the GameState objects constructed so far; an index is an identity
    cache,          \* StatsManager._cache
    cache_dirty,    \* StatsManager._cache_dirty
    stats_file,     \* the file game_stats.json
    calls,          \* the handlers suspended at an await (a bag)
    hist,           \* per GameState: how end_game resolved it, terminal embeds sent
    tally,          \* the winners and losers of the GameStates that were freed
    last            \* the piece of code that ran in the last step and its reply

vars == <<guild, max_card, shuffles, disk, active_games, heap, cache, cache_dirty, stats_file,
          calls, hist, tally, last>>

(***************************************************************************)
(* PlayerData                                                              *)
(***************************************************************************)
RECURSIVE Sum(_)
Sum(cards) == IF cards = <<>> THEN 0 ELSE Head(cards) + Sum(Tail(cards))

Total(cards) == Sum(cards)

\* is_bust counting a total of exactly 21 as a bust
IsBustFrom21(cards) == Total(cards) >= BustLimit

IsBust(cards) == Total(cards) > BustLimit

Score(cards) == IF ~IsBust(cards) THEN Total(cards) ELSE 0

PlayerData(user, cards) == [user |-> user, cards |-> cards, continued |-> FALSE]

(***************************************************************************)
(* StatsManager                                                            *)
(***************************************************************************)
Str(user_id) == ToString(user_id)

NoStats == [wins |-> 0, losses |-> 0]

EmptyCache == [k \in {} |-> NoStats]

GetUserStats(c, user_id) ==
    IF Str(user_id) \in DOMAIN c THEN c[Str(user_id)] ELSE NoStats

Initialized(c, k) == IF k \in DOMAIN c THEN c ELSE c @@ (k :> NoStats)

\* update_game_result that counts the win and forgets the loss
UpdateGameResultWinOnly(c, winner_id, loser_id) ==
    LET winner_key == Str(winner_id)
        c0 == Initialized(Initialized(c, winner_key), Str(loser_id))
    IN  [c0 EXCEPT ![winner_key].wins = @ + 1]

UpdateGameResult(c, winner_id, loser_id) ==
    LET winner_key == Str(winner_id)
        loser_key == Str(loser_id)
        c0 == Initialized(Initialized(c, winner_key), loser_key)
        c1 == [c0 EXCEPT ![winner_key].wins = @ + 1]
    IN  [c1 EXCEPT ![loser_key].losses = @ + 1]

\* the content of a stats file that json.load cannot decode
NotJson == [k \in {"not json"} |-> NoStats]

\* load_stats, lines 107-114: the cache after loading the file; a file that
\* does not exist or does not decode gives the empty cache
LoadStats(file) ==
    IF file.exists /\ file.data # NotJson THEN file.data ELSE EmptyCache

\* save_stats that clears the dirty flag whether or not the write succeeded
SaveStatsGivesUp(s, io_ok) ==
    IF ~s.dirty THEN s
    ELSE IF io_ok THEN [s EXCEPT !.file = [exists |-> TRUE, data |-> s.cache],
                                 !.dirty = FALSE]
    ELSE [s EXCEPT !.dirty = FALSE]

\* save_stats on the StatsManager state s = [cache, dirty, file]; io_ok is
\* whether open/json.dump succeed.
SaveStats(s, io_ok) ==
    IF ~s.dirty THEN s
    ELSE IF io_ok THEN [s EXCEPT !.file = [exists |-> TRUE, data |-> s.cache],
                                 !.dirty = FALSE]
    ELSE s

(***************************************************************************)
(* GameState                                                               *)
(***************************************************************************)
NoTasks == [timer |-> 0, updater |-> 0]

\* list(range(1, n + 1))
Range1(n) == [i \in 1..n |-> i]

\* the deck rotated by k places: one of the orders random.shuffle can produce
Rotated(deck, k) ==
    [i \in 1..Len(deck) |-> deck[((i + k - 1) % Len(deck)) + 1]]

\* list.pop(): the last element, and the list without it
Last(list) == list[Len(list)]

Popped(list) == SubSeq(list, 1, Len(list) - 1)

\* __init__ giving the first turn to the challenged player
NewGameStateOpponentFirst(player1, player2, shuffled) ==
    [player1 |-> PlayerData(player1, <<Last(shuffled)>>),
     player2 |-> PlayerData(player2, <<Last(Popped(shuffled))>>),
     deck |-> Popped(Popped(shuffled)),
     current_turn_id |-> player2,
     turn_start_time |-> 0,
     public_message |-> FALSE,
     tasks |-> NoTasks]

\* GameState.__init__ with the deck as random.shuffle left it.  With fewer
\* than two cards the second pop raises IndexError and nothing is constructed.
NewGameState(player1, player2, shuffled) ==
    [player1 |-> PlayerData(player1, <<Last(shuffled)>>),
     player2 |-> PlayerData(player2, <<Last(Popped(shuffled))>>),
     deck |-> Popped(Popped(shuffled)),
     current_turn_id |-> player1,
     turn_start_time |-> 0,
     public_message |-> FALSE,
     tasks |-> NoTasks]

GameKey(g) == {g.player1.user, g.player2.user}

\* which of the fields player1/player2 holds user_id (get_player_data)
Seat(g, user_id) == IF g.player1.user = user_id THEN 1 ELSE 2

GetPlayerData(g, user_id) == IF Seat(g, user_id) = 1 THEN g.player1 ELSE g.player2

\* get_opponent_data returning the player asked about
GetOpponentDataSelf(g, user_id) == IF Seat(g, user_id) = 1 THEN g.player1 ELSE g.player2

GetOpponentData(g, user_id) == IF Seat(g, user_id) = 1 THEN g.player2 ELSE g.player1

\* time.time() is later at each call; the model counts the calls.
ResetTurnTimer(g) == [g EXCEPT !.turn_start_time = @ + 1]

\* switch_turn that resets the timer and leaves the turn where it is
SwitchTurnKept(g) == [g EXCEPT !.turn_start_time = @ + 1]

SwitchTurn(g) ==
    ResetTurnTimer([g EXCEPT !.current_turn_id =
        IF g.current_turn_id = g.player1.user THEN g.player2.user
        ELSE g.player1.user])

\* the tasks of the list that are not done; cleanup cancels them all
Cleanup(g) == [g EXCEPT !.tasks = NoTasks]

AddTasks(g) == [g EXCEPT !.tasks.timer = @ + 1, !.tasks.updater = @ + 1]

BothContinued(g) == g.player1.continued /\ g.player2.continued

\* a draw that reads the last card of the deck and leaves it there
DealCardPeek(g, user_id) ==
    IF Seat(g, user_id) = 1 THEN [g EXCEPT !.player1.cards = Append(@, Last(g.deck))]
    ELSE [g EXCEPT !.player2.cards = Append(@, Last(g.deck))]

\* new_card = deck.pop(); player_data.cards.append(new_card)
DealCard(g, user_id) ==
    IF Seat(g, user_id) = 1
    THEN [g EXCEPT !.deck = Popped(@), !.player1.cards = Append(@, Last(g.deck))]
    ELSE [g EXCEPT !.deck = Popped(@), !.player2.cards = Append(@, Last(g.deck))]

SetContinued(g, user_id) ==
    IF Seat(g, user_id) = 1 THEN [g EXCEPT !.player1.continued = TRUE]
    ELSE [g EXCEPT !.player2.continued = TRUE]

(***************************************************************************)
(* active_games                                                            *)
(***************************************************************************)
\* position of game_key in the dict, 0 when it is not a key
Lookup(ag, game_key) ==
    IF \E i \in 1..Len(ag) : ag[i].key = game_key
    THEN CHOOSE i \in 1..Len(ag) : ag[i].key = game_key
    ELSE 0

\* the lookup taking the key registered last among those of the player
LastGameOf(ag, player_id) ==
    IF \E i \in 1..Len(ag) : player_id \in ag[i].key
    THEN CHOOSE i \in 1..Len(ag) :
            /\ player_id \in ag[i].key
            /\ \A j \in (i + 1)..Len(ag) : player_id \notin ag[j].key
    ELSE 0

\* next((key for key in active_games if player_id in key), None)
FirstGameOf(ag, player_id) ==
    IF \E i \in 1..Len(ag) : player_id \in ag[i].key
    THEN CHOOSE i \in 1..Len(ag) :
            /\ player_id \in ag[i].key
            /\ \A j \in 1..(i - 1) : player_id \notin ag[j].key
    ELSE 0

RemoveAt(ag, i) == SubSeq(ag, 1, i - 1) \o SubSeq(ag, i + 1, Len(ag))

\* lines 713-716, 787-790, 841-844: a timer task and an updater task are
\* created and appended to _tasks.  The timer starts its sleep; the updater
\* ends at its first check (598) when the key is not in active_games.
NewTasks(g, ag) ==
    IF Lookup(ag, GameKey(g)) # 0 THEN AddTasks(g)
    ELSE [g EXCEPT !.tasks.timer = @ + 1]

Init ==
    /\ guild = {1, 2}
    /\ max_card = MaxCardValue
    /\ shuffles = {Rotated(Range1(MaxCardValue), k) : k \in 0..(NumShuffles - 1)}
    /\ disk = BOOLEAN
    /\ active_games = <<>>
    /\ heap = <<>>
    /\ cache = EmptyCache
    /\ cache_dirty = FALSE
    /\ stats_file = [exists |-> FALSE, data |-> EmptyCache]
    /\ calls = EmptyBag
    /\ hist = <<>>
    /\ tally = [u \in Humans |-> NoStats]
    /\ last = [op |-> "init", p |-> None, arg |-> None, res |-> ""]

\* the state after start-up with the people `members` issuing commands,
\* MAX_CARD_VALUE = n, `orders` orders of the deck tried and the stats file
\* written with the outcomes `writes`
Boot(members, n, orders, writes) ==
    /\ guild = members
    /\ max_card = n
    /\ shuffles = {Rotated(Range1(n), k) : k \in 0..(orders - 1)}
    /\ disk = writes
    /\ active_games = <<>>
    /\ heap = <<>>
    /\ cache = EmptyCache
    /\ cache_dirty = FALSE
    /\ stats_file = [exists |-> FALSE, data |-> EmptyCache]
    /\ calls = EmptyBag
    /\ hist = <<>>
    /\ tally = [u \in Humans |-> NoStats]
    /\ last = [op |-> "init", p |-> None, arg |-> None, res |-> ""]

\* start-up does not look at MAX_CARD_VALUE (validate_environment, 928-935,
\* checks the token only): the bot runs with 0 or 1 as with a deck that can be
\* dealt
InitConfig == \E n \in {0, 1, ThreeCardValue} : Boot({1, 2}, n, NumShuffles, BOOLEAN)

\* two people and a small deck
InitLive == Boot({1, 2}, ThreeCardValue, NumShuffles, BOOLEAN)

\* a stats file written by an earlier run: player 1 won a game against player 2
StoredBefore ==
    (Str(1) :> [wins |-> 1, losses |-> 0]) @@ (Str(2) :> [wins |-> 0, losses |-> 1])

\* The start-up with the stats file absent, undecodable or written by an
\* earlier run: StatsManager.__init__ loads it (105) and the cache is clean.
InitStore ==
    \E file \in {[exists |-> FALSE, data |-> EmptyCache],
                 [exists |-> TRUE, data |-> NotJson],
                 [exists |-> TRUE, data |-> StoredBefore]} :
        /\ guild = {1, 2}
        /\ max_card = ThreeCardValue
        /\ shuffles = {Rotated(Range1(ThreeCardValue), k) : k \in 0..(NumShuffles - 1)}
        /\ disk = BOOLEAN
        /\ active_games = <<>>
        /\ heap = <<>>
        /\ cache = LoadStats(file)
        /\ cache_dirty = FALSE
        /\ stats_file = file
        /\ calls = EmptyBag
        /\ hist = <<>>
        /\ tally = [u \in Humans |-> NoStats]
        /\ last = [op |-> "init", p |-> None, arg |-> None, res |-> ""]

\* two people and the deck of the default configuration
InitDefault == Boot({1, 2}, DefaultCardValue, NumShuffles, BOOLEAN)

\* three people, a small deck and a disk that can be written
InitThree == Boot({1, 2, 3}, ThreeCardValue, NumShuffles, {TRUE})

\* two people whose commands overlap, a small deck and a disk that can be written
InitRace == Boot({1, 2}, RaceCardValue, RaceShuffles, {TRUE})

(***************************************************************************)
(* GameManager.end_game                                                    *)
(***************************************************************************)
NoOutcome == [reason |-> "", winner |-> None, loser |-> None, timed_out |-> None]

\* final_winner of end_game; None when the game has no winner
FinalWinner(g, reason, winner) ==
    IF reason \in {BUST, TIMEOUT} THEN winner
    ELSE IF reason = REVEAL
    THEN IF Score(g.player1.cards) > Score(g.player2.cards) THEN g.player1.user
         ELSE IF Score(g.player2.cards) > Score(g.player1.cards) THEN g.player2.user
         ELSE None
    ELSE None

\* final_loser of end_game
FinalLoser(g, reason, winner) ==
    IF reason \in {BUST, TIMEOUT}
    THEN IF winner = g.player2.user THEN g.player1.user ELSE g.player2.user
    ELSE IF reason = REVEAL
    THEN IF Score(g.player1.cards) > Score(g.player2.cards) THEN g.player2.user
         ELSE IF Score(g.player2.cards) > Score(g.player1.cards) THEN g.player1.user
         ELSE None
    ELSE None

\* the parts of the state end_game reads and writes
World == [active_games |-> active_games, heap |-> heap, cache |-> cache,
          dirty |-> cache_dirty, file |-> stats_file, hist |-> hist]

\* the stats part with an update_game_result that does not set _cache_dirty
RecordResultUnmarked(W, final_winner, final_loser, io_ok) ==
    IF final_winner # None /\ final_loser # None
    THEN LET s == SaveStats([cache |-> UpdateGameResult(W.cache, final_winner, final_loser),
                             dirty |-> W.dirty, file |-> W.file], io_ok)
         IN  [W EXCEPT !.cache = s.cache, !.dirty = s.dirty, !.file = s.file]
    ELSE W

\* the stats part of end_game: update_game_result and save_stats when the game
\* has a winner and a loser
RecordResult(W, final_winner, final_loser, io_ok) ==
    IF final_winner # None /\ final_loser # None
    THEN LET s == SaveStats([cache |-> UpdateGameResult(W.cache, final_winner, final_loser),
                             dirty |-> TRUE, file |-> W.file], io_ok)
         IN  [W EXCEPT !.cache = s.cache, !.dirty = s.dirty, !.file = s.file]
    ELSE W

\* a lookup in place of the pop: the entry stays
PopGameKept(ag, i) == ag

\* active_games.pop(game_key) of the entry at position i
PopGame(ag, i) == RemoveAt(ag, i)

\* end_game(game_key, reason, winner, timed_out_player) up to its last await.
\* own is the GameState whose timer task is running this call (None when a
\* command handler runs it); io_ok is whether the stats file can be written;
\* cut matters when cleanup cancels the running task itself: the CancelledError
\* is raised inside the await of public_message.edit, before (cut) or after
\* the request has left, depending on the HTTP library.
EndGame(W, game_key, reason, winner, timed_out_player, own, io_ok, cut) ==
    LET i == Lookup(W.active_games, game_key) IN
    IF i = 0 THEN W
    ELSE
    LET gs == W.active_games[i].gs
        g == W.heap[gs]
        final_winner == FinalWinner(g, reason, winner)
        final_loser == FinalLoser(g, reason, winner)
        W1 == RecordResult([W EXCEPT !.active_games = PopGame(W.active_games, i)],
                           final_winner, final_loser, io_ok)
        edited == g.public_message /\ ~(own = gs /\ g.tasks.timer > 0 /\ cut)
    IN  [W1 EXCEPT !.heap[gs] = Cleanup(g),
                   !.hist[gs] = [outcome |-> [reason |-> reason, winner |-> final_winner,
                                              loser |-> final_loser,
                                              timed_out |-> timed_out_player],
                                 terminal |-> @.terminal + (IF edited THEN 1 ELSE 0)]]

SetWorld(W) ==
    /\ active_games' = W.active_games
    /\ heap' = W.heap
    /\ cache' = W.cache
    /\ cache_dirty' = W.dirty
    /\ stats_file' = W.file
    /\ hist' = W.hist

\* what the step was: the command or task, the user who issued it, the opponent
\* named in a /play, and the reply or result
StepOn(op, p, arg, res) == last' = [op |-> op, p |-> p, arg |-> arg, res |-> res]

Step(op, p, res) == StepOn(op, p, None, res)

Suspended(pc, p, gs) == [pc |-> pc, p |-> p, gs |-> gs]

Suspend(c) == calls' = calls (+) SetToBag({c})

Wake(c) == calls' = calls (-) SetToBag({c})

(***************************************************************************)
(* GameState objects nothing refers to any more                            *)
(***************************************************************************)
Dead ==
    [player1 |-> PlayerData(None, <<>>), player2 |-> PlayerData(None, <<>>),
     deck |-> <<>>, current_turn_id |-> None, turn_start_time |-> 0,
     public_message |-> FALSE, tasks |-> NoTasks]

Referenced(i) ==
    \/ \E j \in 1..Len(active_games) : active_games[j].gs = i
    \/ \E c \in BagToSet(calls) : c.gs = i
    \/ heap[i].tasks # NoTasks

\* the heap once Python has freed the objects no handler, task or dict entry
\* refers to; what is kept of them is who won and who lost, in tally
Collected == [i \in 1..Len(heap) |-> IF Referenced(i) THEN heap[i] ELSE Dead]

Freed == [reason |-> "freed", winner |-> None, loser |-> None, timed_out |-> None]

CollectedHist ==
    [i \in 1..Len(hist) |->
        IF Referenced(i) THEN hist[i] ELSE [outcome |-> Freed, terminal |-> 0]]

Count(S) == Cardinality(S)

CollectedTally ==
    [u \in Humans |->
        [wins |-> tally[u].wins + Count({i \in 1..Len(hist) :
                    ~Referenced(i) /\ hist[i].outcome.winner = u}),
         losses |-> tally[u].losses + Count({i \in 1..Len(hist) :
                    ~Referenced(i) /\ hist[i].outcome.loser = u})]]

(***************************************************************************)
(* /play                                                                   *)
(***************************************************************************)
\* play_slash with the key an ordered pair: a game is found only when the
\* same player challenged
PlayValidationOrdered(player1, player2) ==
    IF player2 \in Bots THEN "CannotPlayBots"
    ELSE IF player1 = player2 THEN "InvalidChallenge"
    ELSE IF \E i \in 1..Len(active_games) :
              /\ active_games[i].key = {player1, player2}
              /\ heap[active_games[i].gs].player1.user = player1
         THEN "SessionAlreadyActive"
    ELSE "ok"

\* the validation of play_slash, lines 690-703: the reply of a rejected /play
PlayValidation(player1, player2) ==
    IF player2 \in Bots THEN "CannotPlayBots"
    ELSE IF player1 = player2 THEN "InvalidChallenge"
    ELSE IF Lookup(active_games, {player1, player2}) # 0 THEN "SessionAlreadyActive"
    ELSE "ok"

PlayReject(player1, player2) ==
    /\ PlayValidation(player1, player2) # "ok"
    /\ StepOn("play", player1, player2, PlayValidation(player1, player2))
    /\ UNCHANGED <<tally, guild, max_card, shuffles, disk, active_games, heap, cache, cache_dirty,
                   stats_file, calls, hist>>

\* lines 705-709: construct the GameState, register it, await the first reply
PlayBegin(player1, player2) ==
    /\ PlayValidation(player1, player2) = "ok"
    /\ \E shuffled \in shuffles :
         /\ Len(shuffled) >= 2
         /\ heap' = Append(Collected, NewGameState(player1, player2, shuffled))
         /\ active_games' = Append(active_games,
                [key |-> {player1, player2}, gs |-> Len(heap) + 1])
         /\ hist' = Append(CollectedHist, [outcome |-> NoOutcome, terminal |-> 0])
         /\ tally' = CollectedTally
         /\ Suspend(Suspended("play", player1, Len(heap) + 1))
         /\ StepOn("play", player1, player2, "ok")
    /\ UNCHANGED <<guild, max_card, shuffles, disk, cache, cache_dirty, stats_file>>

\* line 706 with a deck of fewer than two cards: a pop of __init__ (165, 166)
\* raises IndexError before the GameState is registered, and the handler
\* reports an error (730-731)
PlayCrash(player1, player2) ==
    /\ PlayValidation(player1, player2) = "ok"
    /\ \E shuffled \in shuffles : Len(shuffled) < 2
    /\ StepOn("play", player1, player2, "error")
    /\ UNCHANGED <<tally, guild, max_card, shuffles, disk, active_games, heap, cache, cache_dirty,
                   stats_file, calls, hist>>

\* lines 710-729: the reply was delivered
PlayResume(c) ==
    /\ c.pc = "play"
    /\ heap' = [heap EXCEPT ![c.gs] = NewTasks([@ EXCEPT !.public_message = TRUE], active_games)]
    /\ Wake(c)
    /\ Step("play_resume", c.p, "ok")
    /\ UNCHANGED <<tally, guild, max_card, shuffles, disk, active_games, cache, cache_dirty, stats_file, hist>>

\* a reply of a suspended handler raised: lines 730-731, 794-795, 848-849
ReplyFails(c) ==
    /\ Wake(c)
    /\ Step(c.pc \o "_fail", c.p, "error")
    /\ UNCHANGED <<tally, guild, max_card, shuffles, disk, active_games, heap, cache, cache_dirty,
                   stats_file, hist>>

(***************************************************************************)
(* /drink                                                                  *)
(***************************************************************************)
\* the validation shared by drink_slash (739-759) and continue_slash (803-820)
TurnValidation(player_id) ==
    LET i == FirstGameOf(active_games, player_id) IN
    IF i = 0 THEN "NotInGame"
    ELSE LET g == heap[active_games[i].gs] IN
         IF player_id # g.current_turn_id THEN "NotYourTurn"
         ELSE IF GetPlayerData(g, player_id).continued THEN "AlreadyHolding"
         ELSE "ok"

\* the GameState the handler of player_id works on
GameOf(player_id) == active_games[FirstGameOf(active_games, player_id)].gs

\* drink_slash cancelling the tasks before it validates the turn
DrinkRejectAfterCancel(player_id) ==
    /\ TurnValidation(player_id) # "ok"
    /\ heap' = IF FirstGameOf(active_games, player_id) = 0 THEN heap
               ELSE [heap EXCEPT ![GameOf(player_id)] = Cleanup(@)]
    /\ Step("drink", player_id, TurnValidation(player_id))
    /\ UNCHANGED <<tally, guild, max_card, shuffles, disk, active_games, cache, cache_dirty,
                   stats_file, calls, hist>>

DrinkReject(player_id) ==
    /\ TurnValidation(player_id) # "ok"
    /\ Step("drink", player_id, TurnValidation(player_id))
    /\ UNCHANGED <<tally, guild, max_card, shuffles, disk, active_games, heap, cache, cache_dirty,
                   stats_file, calls, hist>>

\* lines 761-762: the deck is empty, await the reply
DrinkEmptyBegin(player_id) ==
    /\ TurnValidation(player_id) = "ok"
    /\ heap[GameOf(player_id)].deck = <<>>
    /\ Suspend(Suspended("drink_empty", player_id, GameOf(player_id)))
    /\ Step("drink", player_id, "DeckEmpty")
    /\ UNCHANGED <<tally, guild, max_card, shuffles, disk, active_games, heap, cache, cache_dirty,
                   stats_file, hist>>

\* line 763
DrinkEmptyResume(c) ==
    /\ c.pc = "drink_empty"
    /\ \E io_ok \in disk :
         SetWorld(EndGame(World, GameKey(heap[c.gs]), DECK_EMPTY, None, None,
                          None, io_ok, FALSE))
    /\ Wake(c)
    /\ Step("drink_empty_resume", c.p, DECK_EMPTY)
    /\ UNCHANGED <<tally, guild, max_card, shuffles, disk>>

\* lines 766-778: cancel the tasks, deal a card, reset the timer, await the reply
DrinkBegin(player_id) ==
    /\ TurnValidation(player_id) = "ok"
    /\ heap[GameOf(player_id)].deck # <<>>
    /\ heap' = [heap EXCEPT ![GameOf(player_id)] =
                    ResetTurnTimer(DealCard(Cleanup(@), player_id))]
    /\ Suspend(Suspended("drink", player_id, GameOf(player_id)))
    /\ Step("drink", player_id, "ok")
    /\ UNCHANGED <<tally, guild, max_card, shuffles, disk, active_games, cache, cache_dirty, stats_file, hist>>

\* lines 780-793
DrinkResume(c) ==
    /\ c.pc = "drink"
    /\ LET game_state == heap[c.gs]
           game_key == GameKey(game_state)
       IN  IF IsBust(GetPlayerData(game_state, c.p).cards)
           THEN /\ \E io_ok \in disk :
                     SetWorld(EndGame(World, game_key, BUST,
                                      GetOpponentData(game_state, c.p).user, None,
                                      None, io_ok, FALSE))
                /\ Step("drink_resume", c.p, BUST)
           ELSE /\ heap' = [heap EXCEPT ![c.gs] = NewTasks(@, active_games)]
                /\ Step("drink_resume", c.p, "ok")
                /\ UNCHANGED <<active_games, cache, cache_dirty, stats_file, hist>>
    /\ Wake(c)
    /\ UNCHANGED <<tally, guild, max_card, shuffles, disk>>

(***************************************************************************)
(* /continue                                                               *)
(***************************************************************************)
ContinueReject(player_id) ==
    /\ TurnValidation(player_id) # "ok"
    /\ Step("continue", player_id, TurnValidation(player_id))
    /\ UNCHANGED <<tally, guild, max_card, shuffles, disk, active_games, heap, cache, cache_dirty,
                   stats_file, calls, hist>>

\* lines 822-830: cancel the tasks, set continued, await the reply
ContinueBegin(player_id) ==
    /\ TurnValidation(player_id) = "ok"
    /\ heap' = [heap EXCEPT ![GameOf(player_id)] = SetContinued(Cleanup(@), player_id)]
    /\ Suspend(Suspended("continue", player_id, GameOf(player_id)))
    /\ Step("continue", player_id, "ok")
    /\ UNCHANGED <<tally, guild, max_card, shuffles, disk, active_games, cache, cache_dirty, stats_file, hist>>

\* lines 832-847
ContinueResume(c) ==
    /\ c.pc = "continue"
    /\ LET game_state == heap[c.gs]
           game_key == GameKey(game_state)
       IN  IF BothContinued(game_state)
           THEN /\ \E io_ok \in disk :
                     SetWorld(EndGame(World, game_key, REVEAL, None, None,
                                      None, io_ok, FALSE))
                /\ Step("continue_resume", c.p, REVEAL)
           ELSE /\ heap' = [heap EXCEPT ![c.gs] = NewTasks(SwitchTurn(@), active_games)]
                /\ Step("continue_resume", c.p, "ok")
                /\ UNCHANGED <<active_games, cache, cache_dirty, stats_file, hist>>
    /\ Wake(c)
    /\ UNCHANGED <<tally, guild, max_card, shuffles, disk>>

(***************************************************************************)
(* the background tasks                                                    *)
(***************************************************************************)
TimerDone(W, gs) ==
    IF W.heap[gs].tasks.timer > 0 THEN [W EXCEPT !.heap[gs].tasks.timer = @ - 1] ELSE W

\* timer_task, lines 574-590, of a timer in the task list of GameState gs: the
\* sleep of GAME_TIMEOUT seconds is over.  It looks the key up again, so it
\* acts on whatever GameState is registered under the key now.
TimerFire(gs) ==
    /\ heap[gs].tasks.timer > 0
    /\ LET game_key == GameKey(heap[gs])
           i == Lookup(active_games, game_key)
       IN  IF i = 0
           THEN /\ heap' = [heap EXCEPT ![gs].tasks.timer = @ - 1]
                /\ Step("timer", None, "idle")
                /\ UNCHANGED <<active_games, cache, cache_dirty, stats_file, hist>>
           ELSE LET game_state == heap[active_games[i].gs]
                    current_player == GetPlayerData(game_state, game_state.current_turn_id)
                    opponent == GetOpponentData(game_state, current_player.user)
                IN  /\ \E io_ok \in disk, cut \in BOOLEAN :
                         SetWorld(TimerDone(EndGame(World, game_key, TIMEOUT, opponent.user,
                                                    current_player.user, gs, io_ok, cut), gs))
                    /\ Step("timer", current_player.user, TIMEOUT)
    /\ UNCHANGED <<tally, guild, max_card, shuffles, disk, calls>>

\* updater_task, lines 597-604, of an updater in the task list of GameState gs:
\* a sleep of 5 seconds is over.  It looks the key up, so it refreshes the
\* message of whatever GameState is registered under the key now
\* (update_public_embed, 502-519, which does nothing while that GameState has
\* no public message).
UpdaterWake(gs) ==
    /\ heap[gs].tasks.updater > 0
    /\ LET i == Lookup(active_games, GameKey(heap[gs])) IN
       IF i = 0
       THEN /\ heap' = [heap EXCEPT ![gs].tasks.updater = @ - 1]
            /\ StepOn("updater", None, gs, "exit")
       ELSE /\ heap' = heap
            /\ StepOn("updater", None, gs,
                      IF heap[active_games[i].gs].public_message THEN "refresh"
                      ELSE "no message")
    /\ UNCHANGED <<tally, guild, max_card, shuffles, disk, active_games, cache, cache_dirty, stats_file,
                   calls, hist>>

\* The pieces of the command handlers whose replies are delivered, while fewer
\* than `games` GameStates were constructed and fewer than `inflight` handlers
\* are suspended.
Commands(games, inflight) ==
    \/ \E a \in guild : \E b \in guild \cup Bots : PlayReject(a, b)
    \/ \E a \in guild : \E b \in guild :
          Len(heap) < games /\ BagCardinality(calls) < inflight /\ PlayBegin(a, b)
    \/ \E c \in BagToSet(calls) : PlayResume(c)
    \/ \E p \in guild : DrinkReject(p)
    \/ \E p \in guild : BagCardinality(calls) < inflight /\ DrinkEmptyBegin(p)
    \/ \E c \in BagToSet(calls) : DrinkEmptyResume(c)
    \/ \E p \in guild : BagCardinality(calls) < inflight /\ DrinkBegin(p)
    \/ \E c \in BagToSet(calls) : DrinkResume(c)
    \/ \E p \in guild : ContinueReject(p)
    \/ \E p \in guild : BagCardinality(calls) < inflight /\ ContinueBegin(p)
    \/ \E c \in BagToSet(calls) : ContinueResume(c)

\* The commands and the tasks; a sleep may end at any moment.
Handlers(games, inflight) ==
    \/ Commands(games, inflight)
    \/ \E gs \in 1..Len(heap) : TimerFire(gs)
    \/ \E gs \in 1..Len(heap) : UpdaterWake(gs)

\* The steps of the program: a reply of a suspended handler may also raise.
Steps(games, inflight) ==
    \/ Handlers(games, inflight)
    \/ \E c \in BagToSet(calls) : ReplyFails(c)

Next == Steps(MaxGames, MaxInFlight)

Spec == Init /\ [][Next]_vars

\* the program started with any MAX_CARD_VALUE
NextConfig ==
    \/ Next
    \/ \E a \in guild : \E b \in guild : PlayCrash(a, b)

SpecConfig == InitConfig /\ [][NextConfig]_vars

\* a suspended handler ends: its reply is delivered or raises
HandlerEnds ==
    \E c \in BagToSet(calls) :
        \/ PlayResume(c) \/ DrinkEmptyResume(c) \/ DrinkResume(c) \/ ContinueResume(c)
        \/ ReplyFails(c)

\* The event loop runs every task that is ready: an await on the Discord API
\* returns or raises in the end, and a sleep that is not cancelled ends.
SpecLive ==
    /\ InitLive
    /\ [][Next]_vars
    /\ WF_vars(HandlerEnds)
    /\ \A gs \in 1..MaxGames : WF_vars(gs <= Len(heap) /\ TimerFire(gs))

\* a player issues a /drink or a /continue that is accepted
PlayerActs == \E p \in guild : DrinkBegin(p) \/ DrinkEmptyBegin(p) \/ ContinueBegin(p)

\* The program while no sleep of a timer ends and the players keep acting: a
\* command that would be accepted is issued in the end.
NextActing ==
    \/ Commands(MaxGames, MaxInFlight)
    \/ \E gs \in 1..Len(heap) : UpdaterWake(gs)
    \/ \E c \in BagToSet(calls) : ReplyFails(c)

SpecActing ==
    /\ InitLive
    /\ [][NextActing]_vars
    /\ WF_vars(HandlerEnds)
    /\ WF_vars(BagCardinality(calls) < MaxInFlight /\ PlayerActs)

\* the program with the default deck
SpecDefault == InitDefault /\ [][Next]_vars

\* the program started on any stats file
SpecStore == InitStore /\ [][Next]_vars

\* three people issuing commands, every reply delivered
NextThree == Handlers(MaxGames, MaxInFlight)

SpecThree == InitThree /\ [][NextThree]_vars

\* Two handlers suspended at a time, every reply delivered, and a reply taking
\* far less than GAME_TIMEOUT seconds: no sleep of a timer ends while a
\* handler is waiting for its reply.
NextRace ==
    \/ Commands(RaceGames, RaceInFlight)
    \/ \E gs \in 1..Len(heap) : calls = EmptyBag /\ TimerFire(gs)
    \/ \E gs \in 1..Len(heap) : UpdaterWake(gs)

SpecRace == InitRace /\ [][NextRace]_vars


(***************************************************************************)
(* Shorthands of the properties                                            *)
(***************************************************************************)
Live(key) == Lookup(active_games, key) # 0

LiveAfter(key) == Lookup(active_games', key) # 0

\* the GameState registered under key
Session(key) == heap[active_games[Lookup(active_games, key)].gs]

\* a step that is the first piece of a /play of a on b
PlayStep(a, b) == last'.op = "play" /\ last'.p = a /\ last'.arg = b

\* what a /play of a on b must do in this step
StartContract(a, b) ==
    /\ last'.res = "InvalidChallenge" <=> a = b
    /\ a # b => (last'.res = "ok" <=> ~Live({a, b}))
    /\ a # b /\ Live({a, b}) => last'.res = "SessionAlreadyActive"
    /\ last'.res = "ok" =>
          /\ Len(active_games') = Len(active_games) + 1
          /\ LiveAfter({a, b})
          /\ SubSeq(active_games', 1, Len(active_games)) = active_games
    /\ last'.res # "ok" => UNCHANGED <<active_games, heap, cache, calls, hist>>

\* C1 as amended: for members a and b that are people, /play of a on b is
\* rejected as InvalidChallenge exactly when a = b; when a # b it registers a
\* Session exactly when none is live for {a, b}, in either order of the two, and
\* is rejected as SessionAlreadyActive otherwise; a rejected /play leaves the
\* registry and every GameState as they were.
C1_StartContract ==
    [][\A a \in Humans, b \in Humans : PlayStep(a, b) => StartContract(a, b)]_vars

\* C1 as claimed, for every member b: it fails for a bot account b, which is
\* rejected although a # b and no Session is live.
C1_StartContractAnyMember ==
    [][\A a \in Humans, b \in Humans \cup Bots :
          PlayStep(a, b) => StartContract(a, b)]_vars

\* C1: player 2 challenged player 1 while the Session player 1 started with
\* player 2 is live, and was told that a game is in progress.
C1_Witness ==
    /\ last.op = "play" /\ last.p = 2 /\ last.arg = 1
    /\ last.res = "SessionAlreadyActive"
    /\ Live({1, 2})
    /\ Session({1, 2}).player1.user = 1

(***************************************************************************)
(* C2 - C6                                                                 *)
(***************************************************************************)
Wins(c, u) == GetUserStats(c, u).wins

Losses(c, u) == GetUserStats(c, u).losses

\* the ledger gained one win of w and one loss of l in this step, nothing else
LedgerGains(w, l) ==
    \A u \in Humans :
        /\ Wins(cache', u) = Wins(cache, u) + (IF u = w THEN 1 ELSE 0)
        /\ Losses(cache', u) = Losses(cache, u) + (IF u = l THEN 1 ELSE 0)

LedgerSame == \A u \in Humans : GetUserStats(cache', u) = GetUserStats(cache, u)

\* the suspended handler c ends in this step (it resumes and runs to its end,
\* or its reply raises)
Ends(c) == c \in BagToSet(calls) /\ calls' = calls (-) SetToBag({c})

\* the GameState gs is registered
Registered(gs) == \E i \in 1..Len(active_games) : active_games[i].gs = gs

RegisteredAfter(gs) == \E i \in 1..Len(active_games') : active_games'[i].gs = gs

\* the GameState gs was resolved in this step, with this reason, winner and loser
ResolvedAs(gs, reason, winner, loser) ==
    /\ Registered(gs) /\ ~RegisteredAfter(gs)
    /\ hist'[gs].outcome.reason = reason
    /\ hist'[gs].outcome.winner = winner
    /\ hist'[gs].outcome.loser = loser

\* C2 as claimed: when the handler of a draw ends and the draw brought the
\* hand of the drawer above 21, the Session is resolved BUST, the opponent wins
\* and the ledger gains that win and that loss; a draw that is no bust leaves
\* the Session registered.
C2_BustResolvesAtOnce ==
    [][\A c \in BagToSet(calls) :
          (c.pc = "drink" /\ Ends(c) /\ Registered(c.gs)) =>
             LET g == heap[c.gs]
                 opponent == GetOpponentData(g, c.p).user
             IN  IF IsBust(GetPlayerData(g, c.p).cards)
                 THEN ResolvedAs(c.gs, BUST, opponent, c.p) /\ LedgerGains(opponent, c.p)
                 ELSE RegisteredAfter(c.gs) /\ LedgerSame]_vars

\* who wins a reveal of g: the higher score, a bust hand scoring 0
Higher(g) ==
    LET s1 == IF Total(g.player1.cards) > BustLimit THEN 0 ELSE Total(g.player1.cards)
        s2 == IF Total(g.player2.cards) > BustLimit THEN 0 ELSE Total(g.player2.cards)
    IN  IF s1 > s2 THEN g.player1.user ELSE IF s2 > s1 THEN g.player2.user ELSE None

Lower(g) ==
    IF Higher(g) = None THEN None
    ELSE IF Higher(g) = g.player1.user THEN g.player2.user ELSE g.player1.user

\* C3 as claimed: when the handler of a hold ends and both hands are holding,
\* the Session is resolved REVEAL, the higher score wins and the ledger gains
\* that win and that loss, or nothing when the scores are equal.
C3_RevealResolves ==
    [][\A c \in BagToSet(calls) :
          (c.pc = "continue" /\ Ends(c) /\ Registered(c.gs)
                /\ BothContinued(heap[c.gs])) =>
             /\ ResolvedAs(c.gs, REVEAL, Higher(heap[c.gs]), Lower(heap[c.gs]))
             /\ LedgerGains(Higher(heap[c.gs]), Lower(heap[c.gs]))]_vars

\* a timer of the task list of gs ran in this step
TimerRan(gs) == last'.op = "timer" /\ heap'[gs].tasks.timer < heap[gs].tasks.timer

\* no handler that works on the GameState gs is suspended
Idle(gs) == \A c \in BagToSet(calls) : c.gs # gs

\* C4 as claimed: a Session that is registered, whose start completed and on
\* which no command is being handled has a timeout task pending, so that the
\* end of the timeout window finds a task that resolves it.
C4_WindowEndsInTimeout ==
    \A i \in 1..Len(active_games) :
        (heap[active_games[i].gs].public_message /\ Idle(active_games[i].gs)) =>
            heap[active_games[i].gs].tasks.timer > 0

\* The part of C4 that holds: when a timeout task fires and finds its pair registered, the Session
\* registered under the pair is resolved TIMEOUT: the player whose turn it is
\* at that moment is the one timed out and the loser, the opponent wins, and
\* the ledger gains that win and that loss and nothing else.
C4_TimeoutResolves ==
    [][\A gs \in 1..Len(heap) :
          (TimerRan(gs) /\ Live(GameKey(heap[gs]))) =>
             LET key == GameKey(heap[gs])
                 s == Session(key)
                 owner == s.current_turn_id
                 opponent == IF owner = s.player1.user THEN s.player2.user
                             ELSE s.player1.user
             IN  /\ ResolvedAs(active_games[Lookup(active_games, key)].gs,
                               TIMEOUT, opponent, owner)
                 /\ hist'[active_games[Lookup(active_games, key)].gs].outcome.timed_out
                        = owner
                 /\ ~LiveAfter(key)
                 /\ LedgerGains(opponent, owner)]_vars

\* the timer of the first Session fired while it was the turn of player 2
\* (player 1 had held); player 1 won.
C4_TimeoutWitness ==
    /\ last.op = "timer" /\ last.res = TIMEOUT /\ last.p = 2
    /\ Len(hist) = 1
    /\ hist[1].outcome = [reason |-> TIMEOUT, winner |-> 1, loser |-> 2, timed_out |-> 2]
    /\ heap[1].player1.continued
    /\ ~Live({1, 2})
    /\ Wins(cache, 1) = 1 /\ Losses(cache, 2) = 1

\* C5 as claimed: when the reply to a draw on an empty deck was delivered and
\* the handler ends, the Session is resolved DECK_EMPTY, without a winner, and
\* the ledger is as before the draw.
C5_DeckEmptyResolves ==
    [][\A c \in BagToSet(calls) :
          (c.pc = "drink_empty" /\ Ends(c) /\ last'.op = "drink_empty_resume") =>
             /\ hist'[c.gs].outcome.reason = DECK_EMPTY
             /\ hist'[c.gs].outcome.winner = None
             /\ LedgerSame]_vars

CallsEndGame(c) ==
    /\ Ends(c)
    /\ \/ last'.op = "drink_empty_resume"
       \/ last'.op = "drink_resume" /\ last'.res = BUST
       \/ last'.op = "continue_resume" /\ last'.res = REVEAL

\* C7: an end_game call for a pair that is not registered changes neither the
\* registry nor the ledger nor the stats file and emits no terminal event; a
\* GameState that was resolved keeps its outcome and its count of terminal
\* events and is never registered again; a step removes at most one entry; and
\* the ledger changes only in a step that removes a GameState from the
\* registry, by the one win and the one loss of its outcome.
C7_ResolveOnce ==
    [][/\ \A c \in BagToSet(calls) :
             (CallsEndGame(c) /\ ~Live(GameKey(heap[c.gs]))) =>
                UNCHANGED <<active_games, cache, cache_dirty, stats_file, hist>>
       /\ last'.op # "play" =>
             \A gs \in 1..Len(hist) :
                hist[gs].outcome # NoOutcome =>
                   hist'[gs] = hist[gs] /\ ~RegisteredAfter(gs)
       /\ Len(active_games') >= Len(active_games) - 1
       /\ \/ LedgerSame
          \/ \E gs \in 1..Len(heap) :
                /\ Registered(gs) /\ ~RegisteredAfter(gs)
                /\ hist[gs].outcome = NoOutcome
                /\ LedgerGains(hist'[gs].outcome.winner, hist'[gs].outcome.loser)]_vars

\* C7: the timer resolved the first Session while the reply to a draw on the
\* empty deck was on its way; the end_game call of the draw came second and
\* the Session is still the TIMEOUT it was resolved as, with one win recorded.
C7_Witness ==
    /\ last.op = "drink_empty_resume"
    /\ Len(hist) = 1
    /\ hist[1].outcome.reason = TIMEOUT
    /\ hist[1].outcome.winner = 2
    /\ hist[1].terminal <= 1
    /\ active_games = <<>>
    /\ Wins(cache, 2) = 1 /\ Losses(cache, 1) = 1
    /\ Wins(cache, 1) = 0 /\ Losses(cache, 2) = 0

\* the GameStates resolved BUST, TIMEOUT or REVEAL
Decided == {i \in 1..Len(hist) : hist[i].outcome.reason \in {BUST, TIMEOUT, REVEAL}}

\* C8: for every player x the ledger holds as many wins as there are Sessions
\* resolved BUST, TIMEOUT or REVEAL that x won, and as many losses as there are
\* such Sessions that x lost (tally counts the ones whose GameState was freed);
\* a Session resolved DECK_EMPTY has no winner and no loser, and neither has a
\* REVEAL of equal scores.
C8_LedgerCountsOutcomes ==
    /\ \A x \in Humans :
          /\ Wins(cache, x) =
                tally[x].wins + Count({i \in Decided : hist[i].outcome.winner = x})
          /\ Losses(cache, x) =
                tally[x].losses + Count({i \in Decided : hist[i].outcome.loser = x})
    /\ \A i \in 1..Len(hist) :
          /\ hist[i].outcome.reason = DECK_EMPTY =>
                hist[i].outcome.winner = None /\ hist[i].outcome.loser = None
          /\ (hist[i].outcome.reason = REVEAL
                /\ Score(heap[i].player1.cards) = Score(heap[i].player2.cards)) =>
                hist[i].outcome.winner = None /\ hist[i].outcome.loser = None
          /\ hist[i].outcome.winner = None <=> hist[i].outcome.loser = None

\* C8: two Sessions of the pair were resolved, player 1 won the first one,
\* whose GameState is freed, and player 2 won the reveal of the second one.
C8_Witness ==
    /\ Len(hist) = 2
    /\ hist[1].outcome = Freed
    /\ tally[1].wins = 1 /\ tally[2].losses = 1
    /\ hist[2].outcome.reason = REVEAL /\ hist[2].outcome.winner = 2
    /\ Wins(cache, 1) = 1 /\ Losses(cache, 1) = 1
    /\ Wins(cache, 2) = 1 /\ Losses(cache, 2) = 1

\* C9: a /drink or /continue answered NotYourTurn or AlreadyHolding changes
\* no GameState (hands, deck, holding flags, turn, turn_start_time, tasks),
\* nor the registry, the ledger, the stats file or the suspended handlers.
C9_RejectChangesNothing ==
    [][(last'.op \in {"drink", "continue"}
          /\ last'.res \in {"NotYourTurn", "AlreadyHolding"}) =>
             UNCHANGED <<heap, active_games, cache, cache_dirty, stats_file, calls, hist>>]_vars

\* C9: player 2 asked to hold while it was the turn of player 1; the Session
\* is registered with its timer and its updater pending.
C9_Witness ==
    /\ last.op = "continue" /\ last.res = "NotYourTurn" /\ last.p = 2
    /\ Live({1, 2})
    /\ Session({1, 2}).current_turn_id = 1
    /\ Session({1, 2}).tasks = [timer |-> 1, updater |-> 1]
    /\ Len(Session({1, 2}).player1.cards) = 2

\* the cards of g: the two hands and then the deck
AllCards(g) == g.player1.cards \o g.player2.cards \o g.deck

\* every value 1..max_card is in exactly one place of g
OnceEach(g) ==
    /\ Len(AllCards(g)) = max_card
    /\ {AllCards(g)[i] : i \in 1..Len(AllCards(g))} = 1..max_card

\* C10: after every step, each GameState holds every value 1..N exactly once
\* in its two hands and its deck; a new GameState has one card in each hand
\* and N - 2 in the deck; the first piece of an accepted draw takes exactly
\* one card off the deck of its GameState and no other step changes a deck.
C10_DeckDealtOnce ==
    [][\A gs \in 1..Len(heap') :
          heap'[gs] # Dead =>
             /\ OnceEach(heap'[gs])
             /\ gs > Len(heap) =>
                   /\ Len(heap'[gs].deck) = max_card - 2
                   /\ Len(heap'[gs].player1.cards) = 1
                   /\ Len(heap'[gs].player2.cards) = 1
             /\ gs <= Len(heap) =>
                   IF last'.op = "drink" /\ last'.res = "ok" /\ heap'[gs] # heap[gs]
                   THEN /\ heap'[gs].deck = SubSeq(heap[gs].deck, 1, Len(heap[gs].deck) - 1)
                        /\ Len(heap[gs].deck) > 0
                   ELSE heap'[gs].deck = heap[gs].deck]_vars

\* C10: the last card was just drawn: the deck is empty and the two hands hold
\* all N cards.
C10_Witness ==
    /\ last.op = "drink" /\ last.res = "ok"
    /\ Live({1, 2})
    /\ Session({1, 2}).deck = <<>>
    /\ Len(Session({1, 2}).player1.cards) + Len(Session({1, 2}).player2.cards) = max_card

(***************************************************************************)
(* C11 - C15                                                               *)
(***************************************************************************)
\* C11: the step in which /play of a on b is accepted leaves a new GameState
\* registered under {a, b}, with a as player1 and b as player2, one card in
\* each hand, no hand holding, the turn with a and N - 2 cards in the deck.
C11_StartState ==
    [][\A a \in Humans, b \in Humans :
          (PlayStep(a, b) /\ last'.res = "ok") =>
             LET g == heap'[Len(heap')] IN
             /\ Len(heap') = Len(heap) + 1
             /\ LiveAfter({a, b})
             /\ active_games'[Lookup(active_games', {a, b})].gs = Len(heap')
             /\ g.player1.user = a /\ g.player2.user = b
             /\ Len(g.player1.cards) = 1 /\ Len(g.player2.cards) = 1
             /\ ~g.player1.continued /\ ~g.player2.continued
             /\ g.current_turn_id = a
             /\ Len(g.deck) = max_card - 2]_vars

\* C11: player 2 has just challenged player 1 and the Session is registered
\* with the turn of player 2.
C11_Witness ==
    /\ last.op = "play" /\ last.res = "ok" /\ last.p = 2 /\ last.arg = 1
    /\ Live({1, 2})
    /\ Session({1, 2}).player1.user = 2
    /\ Session({1, 2}).current_turn_id = 2
    /\ Len(Session({1, 2}).deck) = max_card - 2

\* the positions in the registry of the Sessions player p is in
SessionsOf(p) == {i \in 1..Len(active_games) : p \in active_games[i].key}

Min(S) == CHOOSE i \in S : \A j \in S : i <= j

\* the GameState of the Session of p that was registered first
Earliest(p) == active_games[Min(SessionsOf(p))].gs

\* C12: a /play of a on another member c is accepted whenever no Session is
\* registered for {a, c}, whatever other Sessions a or c are in, and is
\* registered behind the Sessions there are; and a /drink or /continue of a
\* player who is in a Session is validated against, suspended on and applied
\* to the Session of that player that was registered first: no other
\* GameState changes in the step.
C12_EarliestSession ==
    [][/\ \A a \in Humans, c \in Humans :
             (PlayStep(a, c) /\ a # c /\ ~Live({a, c})) =>
                /\ last'.res = "ok"
                /\ LiveAfter({a, c})
                /\ SubSeq(active_games', 1, Len(active_games)) = active_games
                /\ Len(active_games') = Len(active_games) + 1
       /\ \A p \in Humans :
             (last'.op \in {"drink", "continue"} /\ last'.p = p /\ SessionsOf(p) # {}) =>
                LET first == Earliest(p)
                    g == heap[first]
                    hand == IF g.player1.user = p THEN g.player1 ELSE g.player2
                    hand_after == IF g.player1.user = p THEN heap'[first].player1
                                  ELSE heap'[first].player2
                IN  /\ \A gs \in 1..Len(heap) : gs # first => heap'[gs] = heap[gs]
                    /\ last'.res = "NotYourTurn" <=> g.current_turn_id # p
                    /\ last'.res \in {"ok", "DeckEmpty"} =>
                          calls' = calls (+) SetToBag({[pc |-> IF last'.res = "DeckEmpty"
                                                              THEN "drink_empty"
                                                              ELSE last'.op,
                                                        p |-> p, gs |-> first]})
                    /\ (last'.op = "drink" /\ last'.res = "ok") =>
                          Len(hand_after.cards) = Len(hand.cards) + 1
                    /\ (last'.op = "continue" /\ last'.res = "ok") =>
                          hand_after.continued]_vars

\* C12: player 1 is in the Session with player 2, registered first, and in the
\* Session with player 3, and has the turn in both; the /drink of player 1
\* went to the first one.
C12_Witness ==
    /\ last.op = "drink" /\ last.res = "ok" /\ last.p = 1
    /\ Len(active_games) = 2
    /\ active_games[1].key = {1, 2} /\ active_games[2].key = {1, 3}
    /\ Len(heap[active_games[1].gs].player1.cards) = 2
    /\ heap[active_games[2].gs].current_turn_id = 1
    /\ Len(heap[active_games[2].gs].player1.cards) = 1
    /\ Len(heap[active_games[2].gs].deck) = max_card - 2

\* C13 as claimed: with MAX_CARD_VALUE below 2 no GameState is constructed or
\* registered, and no /play fails on the deck, the failure having been raised
\* when the bot started.
C13_ConfigErrorAtStartup ==
    max_card < 2 =>
        /\ active_games = <<>>
        /\ heap = <<>>
        /\ ~(last.op = "play" /\ last.res = "error")

\* the GameState gs is resolved in this step with a winner, and the stats file
\* is not written
ResolvedUnwritten(gs) ==
    /\ Registered(gs)
    /\ hist[gs].outcome = NoOutcome
    /\ hist'[gs].outcome.winner # None
    /\ stats_file' = stats_file

\* C14: when end_game resolves a Session with a winner and the write of the
\* stats file fails, the Session is removed from the registry all the same,
\* its tasks are cancelled, the cache holds the new win and the new loss, the
\* dirty flag is set, and a save_stats that can write then writes the cache.
C14_FailedWriteKeepsResult ==
    [][\A gs \in 1..Len(heap) :
          ResolvedUnwritten(gs) =>
             /\ ~RegisteredAfter(gs)
             /\ Len(active_games') = Len(active_games) - 1
             /\ heap'[gs].tasks = NoTasks
             /\ LedgerGains(hist'[gs].outcome.winner, hist'[gs].outcome.loser)
             /\ cache_dirty'
             /\ SaveStats([cache |-> cache', dirty |-> cache_dirty', file |-> stats_file'],
                          TRUE)
                   = [cache |-> cache', dirty |-> FALSE,
                      file |-> [exists |-> TRUE, data |-> cache']]]_vars

\* C14: the first Session was resolved by a bust while the stats file could
\* not be written: the file does not exist, the cache holds the result and is
\* dirty, and the Session is gone.
C14_Witness ==
    /\ last.op = "drink_resume" /\ last.res = BUST
    /\ Len(hist) = 1
    /\ hist[1].outcome.reason = BUST
    /\ ~stats_file.exists
    /\ cache_dirty
    /\ Wins(cache, hist[1].outcome.winner) = 1
    /\ Losses(cache, hist[1].outcome.loser) = 1
    /\ active_games = <<>>
    /\ heap[1].tasks = NoTasks

\* the hands of all GameStates
Hands == UNION {{heap[gs].player1.cards, heap[gs].player2.cards} : gs \in 1..Len(heap)}

\* C15: for every hand a game holds, the score is 0 when the sum of the cards
\* is above 21 and is that sum when it is 21 or less, and the hand is a bust
\* exactly when the sum is above 21.
C15_ScoreOfHand ==
    \A cards \in Hands :
        /\ Sum(cards) > 21 => Score(cards) = 0 /\ IsBust(cards)
        /\ Sum(cards) <= 21 => Score(cards) = Sum(cards) /\ ~IsBust(cards)
        /\ Total(cards) = Sum(cards)

\* C15: a hand of exactly 21 is held next to a hand of 7: it is no bust and
\* scores 21.
C15_Witness ==
    /\ Live({1, 2})
    /\ Sum(Session({1, 2}).player1.cards) = 21
    /\ Score(Session({1, 2}).player1.cards) = 21
    /\ ~IsBust(Session({1, 2}).player1.cards)
    /\ Score(Session({1, 2}).player2.cards) = 7

(***************************************************************************)
(* C16 - C19: handlers that overlap                                        *)
(***************************************************************************)
\* the step is a piece of a /drink or /continue handler or a timeout firing
TransitionStep ==
    last'.op \in {"drink", "drink_resume", "drink_empty_resume", "continue",
                  "continue_resume", "timer"}

\* C16 as claimed: while a /drink or /continue handler is suspended after its
\* mutation (the card pop, continued = True), no piece of another /drink or
\* /continue handler and no timeout changes its GameState or removes it from
\* the registry.
C16_NoInterleaving ==
    [][\A c \in BagToSet(calls) :
          (c.pc \in {"drink", "continue"} /\ ~Ends(c) /\ TransitionStep) =>
             /\ heap'[c.gs] = heap[c.gs]
             /\ Registered(c.gs) => RegisteredAfter(c.gs)]_vars

\* C17 as claimed: a registered Session has at most one timeout task pending.
C17_OneTimer ==
    \A i \in 1..Len(active_games) : heap[active_games[i].gs].tasks.timer <= 1

\* C18 as claimed: a GameState that end_game resolved has no timeout task and
\* no updater task pending.
C18_NoTaskAfterResolve ==
    \A gs \in 1..Len(heap) :
        hist[gs].outcome \notin {NoOutcome, Freed} => heap[gs].tasks = NoTasks

\* C19 as claimed: the rest of a /drink or /continue handler whose GameState
\* is no longer registered, and a timeout task of such a GameState, change
\* neither the registry nor the ledger nor any other GameState.
C19_StaleIsNoOp ==
    [][/\ \A c \in BagToSet(calls) :
             (c.pc \in {"drink", "drink_empty", "continue"} /\ Ends(c)
                   /\ ~Registered(c.gs)) =>
                /\ UNCHANGED <<active_games, cache>>
                /\ \A gs \in 1..Len(heap) : gs # c.gs => heap'[gs] = heap[gs]
       /\ \A own \in 1..Len(heap) :
             (TimerRan(own) /\ ~Registered(own)) =>
                /\ UNCHANGED <<active_games, cache>>
                /\ \A gs \in 1..Len(heap) : gs # own => heap'[gs] = heap[gs]]_vars

\* C20 as claimed: a Session that is registered is removed from the registry
\* in the end.
C20_EventuallyResolved ==
    \A a \in Humans, b \in Humans : Live({a, b}) ~> ~Live({a, b})

(***************************************************************************)
(* C21 - C24: the tasks and the ledger                                     *)
(***************************************************************************)
\* C21 as claimed: a registered Session on which no handler is suspended has
\* a timeout task and an updater task pending.
C21_TasksPending ==
    \A i \in 1..Len(active_games) :
        Idle(active_games[i].gs) =>
            /\ heap[active_games[i].gs].tasks.timer > 0
            /\ heap[active_games[i].gs].tasks.updater > 0

\* the GameState gs is removed from the registry in this step
Resolved(gs) == Registered(gs) /\ ~RegisteredAfter(gs)

\* C22 as claimed: the step that resolves a Session which has a public message
\* edits that message to the terminal embed once, whatever the reason, and no
\* GameState ever has more than one terminal embed.
C22_TerminalEvent ==
    [][\A gs \in 1..Len(heap) :
          /\ (Resolved(gs) /\ heap[gs].public_message) =>
                /\ hist'[gs].outcome.reason \in {BUST, REVEAL, TIMEOUT, DECK_EMPTY}
                /\ hist'[gs].terminal = hist[gs].terminal + 1
          /\ hist'[gs].terminal <= 1]_vars

\* the ledger as game_stats.json holds it, an absent file counting as empty
Store == IF stats_file.exists THEN stats_file.data ELSE EmptyCache

StoreAfter == IF stats_file'.exists THEN stats_file'.data ELSE EmptyCache

\* save_stats with the dirty flag false changes nothing, whether or not the
\* file could be written; and the dirty flag is cleared in a step only by a
\* write of the cache to the file
FlushDiscipline ==
    /\ \A io_ok \in BOOLEAN :
          SaveStats([cache |-> cache, dirty |-> FALSE, file |-> stats_file], io_ok)
             = [cache |-> cache, dirty |-> FALSE, file |-> stats_file]
    /\ (cache_dirty /\ ~cache_dirty') =>
          stats_file' = [exists |-> TRUE, data |-> cache']

\* C23 as claimed: whenever the dirty flag is false the stats file holds the
\* cache, an absent file counting as empty; a flush with the flag false writes
\* nothing and only a successful write clears the flag.
C23_CleanMeansStored ==
    [][/\ ~cache_dirty => Store = cache
       /\ ~cache_dirty' => StoreAfter = cache'
       /\ FlushDiscipline]_vars

\* C23 as amended: whenever the dirty flag is false the cache is what loading
\* the stats file gives, an absent file and a file that does not decode
\* counting as empty; a flush with the flag false writes nothing and only a
\* successful write clears the flag.
C23_CleanMeansLoadable ==
    [][/\ ~cache_dirty => LoadStats(stats_file) = cache
       /\ ~cache_dirty' => LoadStats(stats_file') = cache'
       /\ FlushDiscipline]_vars

\* C23: the run started on the file of an earlier run; a Session was resolved
\* with a winner and the write succeeded: the flag is false and the file holds
\* the cache, the old result and the new one.
C23_Witness ==
    /\ ~cache_dirty
    /\ stats_file.exists /\ stats_file.data = cache
    /\ Len(hist) = 1 /\ hist[1].outcome.winner # None
    /\ Wins(cache, 1) + Wins(cache, 2) = 2

\* C24 as claimed: a step of an updater task changes neither a hand, a deck, a
\* holding flag, a turn or a turn_start_time of any GameState, nor the
\* registry, the ledger or the stats file; and an updater refreshes a message
\* only while the GameState it was created for is registered.
C24_UpdaterObserves ==
    [][last'.op = "updater" =>
          /\ UNCHANGED <<active_games, cache, cache_dirty, stats_file, hist, calls>>
          /\ \A gs \in 1..Len(heap) :
                /\ [heap'[gs] EXCEPT !.tasks = heap[gs].tasks] = heap[gs]
                /\ heap'[gs].tasks.timer = heap[gs].tasks.timer
          /\ last'.res = "refresh" => Registered(last'.arg)]_vars

(***************************************************************************)
(* C25 - C29: commands handled one at a time                               *)
(***************************************************************************)
\* C25 as claimed: with MAX_CARD_VALUE = 11 no Session is resolved as
\* DECK_EMPTY.
C25_NoDeckEmpty ==
    \A gs \in 1..Len(hist) : hist[gs].outcome.reason # DECK_EMPTY

\* the registered GameStates on which no handler is suspended
Settled == {heap[active_games[i].gs] : i \in {j \in 1..Len(active_games) : Idle(active_games[j].gs)}}

\* C26 as claimed: between commands the hand of the turn owner of a
\* registered Session is not holding, and no command issued while no handler
\* is suspended is answered AlreadyHolding.
C26_OwnerNotHolding ==
    /\ \A g \in Settled : ~GetPlayerData(g, g.current_turn_id).continued
    /\ calls = EmptyBag => last.res # "AlreadyHolding"

\* C27 as claimed: between commands the turn of a registered Session is with
\* player1 as long as player1 has not held and with player2 from then on.
C27_TurnPhases ==
    \A g \in Settled :
        g.current_turn_id = IF g.player1.continued THEN g.player2.user ELSE g.player1.user

\* The part of C27 that holds: a step changes the turn of a GameState only
\* from player1, who has held, to player2, who has not; so the turn changes at
\* most once and never goes to a player who has held.
C27_TurnChangesOnce ==
    [][\A gs \in 1..Len(heap) :
          (heap'[gs] # Dead /\ heap'[gs].current_turn_id # heap[gs].current_turn_id) =>
             /\ heap[gs].current_turn_id = heap[gs].player1.user
             /\ heap'[gs].current_turn_id = heap[gs].player2.user
             /\ heap'[gs].player1.continued
             /\ ~heap'[gs].player2.continued]_vars

\* C28 as claimed: between commands no hand of a registered Session is above
\* 21; and in a GameState resolved by REVEAL each hand scores its total and
\* the winner is the player whose total is strictly larger.
C28_NoBustHand ==
    /\ \A g \in Settled : ~IsBust(g.player1.cards) /\ ~IsBust(g.player2.cards)
    /\ \A gs \in 1..Len(hist) :
          hist[gs].outcome.reason = REVEAL =>
             LET g == heap[gs]
                 t1 == Total(g.player1.cards)
                 t2 == Total(g.player2.cards)
             IN  /\ Score(g.player1.cards) = t1 /\ Score(g.player2.cards) = t2
                 /\ hist[gs].outcome.winner =
                       IF t1 > t2 THEN g.player1.user
                       ELSE IF t2 > t1 THEN g.player2.user ELSE None

\* the draws and the holds a GameState has accepted
Draws(g) == Len(g.player1.cards) + Len(g.player2.cards) - 2

Holds(g) == (IF g.player1.continued THEN 1 ELSE 0) + (IF g.player2.continued THEN 1 ELSE 0)

\* The part of C29 that holds: no GameState accepts more than N - 2 draws or
\* more than 2 holds.
C29_BoundedActions ==
    \A gs \in 1..Len(heap) :
        heap[gs] # Dead =>
            /\ Draws(heap[gs]) <= max_card - 2
            /\ Holds(heap[gs]) <= 2

\* C29 as claimed: a GameState accepts at most N - 2 draws and 2 holds, and
\* while the players keep acting every Session is removed from the registry in
\* the end, without a timer.
C29_GameEnds ==
    /\ []C29_BoundedActions
    /\ \A gs \in 1..MaxGames :
          (gs <= Len(heap) /\ Registered(gs)) ~> ~(gs <= Len(heap) /\ Registered(gs))
====
